---- MODULE Spec2Model ----
(***************************************************************************)
(* Settings/profile manager of the SpicyAccessibility widget, with the     *)
(* storage wrapper and the event bus it is built on.                       *)
(*                                                                         *)
(* JavaScript values are written as strings ("100", "true", "false",       *)
(* "undefined"); a JavaScript object is a function from its own property   *)
(* names to values.  A JSON text is a record [kind, val].                  *)
(***************************************************************************)
EXTENDS Integers, Sequences, FiniteSets, TLC

VARIABLES
  settings,      \* Settings.settings
  profiles,      \* Settings.profiles
  localStorage,  \* the browser's localStorage, kept across sessions
  isAvailable,   \* Storage.isAvailable
  autoSave,      \* Storage.autoSave
  storeEnv,      \* the browser: "ok", "quota" (writes throw) or "denied" (every access throws)
  listeners,     \* EventBus.listeners: channel -> identity of its Set
  sets,          \* the Set objects: identity -> list of entries ([[SetData]])
  unsubs,        \* the unsubscribe functions EventBus.on has returned
  applied,       \* NavigationFeatures.lastSettings of each subscribed module
  loaded,        \* Settings.load() has returned in this session
  lastOp,        \* history: the operation that ran last, its result and its log
  fresh,         \* history: the last load() found no persisted profiles
  snap,          \* history: name and mapping of the last saveProfile
  subscriptions, \* the host page's subscriptions, made again in every session
  initialProfile,\* config.initialProfile of the host page
  prevSession,   \* history: the settings when the previous session ended
  other,         \* the manager of a second tab on the same store; this one's number
  writer,        \* history: the tab that wrote each persisted entry last (0: none)
  nops           \* number of operations so far

vars == <<settings, profiles, localStorage, isAvailable, autoSave, storeEnv, listeners,
          sets, unsubs, applied, loaded, lastOp, fresh, snap, subscriptions,
          initialProfile, prevSession, other, writer, nops>>

-----------------------------------------------------------------------------
(* Bounds *)

MaxOps == 4

-----------------------------------------------------------------------------
(* JavaScript objects *)

Undefined == "undefined"
EmptyObj == <<>>

\* Names every plain object inherits from Object.prototype (a sample).
ObjectPrototypeNames == {"toString", "__proto__"}

PropSet_dropped(obj, key, value) == obj

\* obj[key] = value
PropSet(obj, key, value) ==
  IF key = "__proto__" THEN obj
  ELSE [k \in DOMAIN obj \cup {key} |-> IF k = key THEN value ELSE obj[k]]

\* obj[key]
PropGet(obj, key) ==
  IF key \in DOMAIN obj THEN obj[key]
  ELSE IF key \in ObjectPrototypeNames THEN "[native]"
  ELSE Undefined

ObjectAssign_replace(target, source) == source

\* Object.assign(target, source)
ObjectAssign(target, source) ==
  [k \in DOMAIN target \cup DOMAIN source |->
     IF k \in DOMAIN source THEN source[k] ELSE target[k]]

\* { ...obj }
Spread(obj) == [k \in DOMAIN obj |-> obj[k]]

\* delete obj[key]
Delete(obj, key) == [k \in DOMAIN obj \ {key} |-> obj[k]]

\* JSON.stringify of a flat object: properties whose value is undefined are left out
StripUndefined(obj) == [k \in {j \in DOMAIN obj : obj[j] # Undefined} |-> obj[k]]

JSONstringify(obj) == [kind |-> "json", val |-> StripUndefined(obj)]

\* JSON.stringify of an object of flat objects
JSONstringifyNested(obj) ==
  [kind |-> "json", val |-> [n \in DOMAIN obj |-> StripUndefined(obj[n])]]

JSONparse(text) == text.val

\* JSON.parse throws a SyntaxError on a text that is not JSON
JSONparseThrows(text) == text.kind = "garbage"

NullText == [kind |-> "null", val |-> EmptyObj]

\* a stored string that is not JSON
GarbageText == [kind |-> "garbage", val |-> EmptyObj]

\* truthiness of a string-or-null
Truthy(text) == text.kind # "null"

-----------------------------------------------------------------------------
(* Settings: built-in data *)

DefaultKeys ==
  {"fontSize", "lineHeight", "letterSpacing", "dyslexicFont", "contrast",
   "darkMode", "lightMode", "grayscale", "highlightLinks", "readingGuide",
   "hideImages", "pauseAnimations", "bigCursor", "focusIndicator",
   "pageStructure", "textToSpeech", "tooltips"}

defaultSettings ==
  [k \in DefaultKeys |-> IF k = "fontSize" THEN "100" ELSE "false"]

builtInProfiles ==
  {"default", "highContrast", "dyslexic", "senior", "lowVision", "motor", "cognitive"}

getDefaultProfiles_bare ==
  [n \in builtInProfiles |->
     IF n = "default" THEN Spread(defaultSettings) ELSE [contrast |-> "true"]]

getDefaultProfiles ==
  [n \in builtInProfiles |->
     CASE n = "default" -> Spread(defaultSettings)
       [] n = "highContrast" ->
            ObjectAssign(defaultSettings,
              [contrast |-> "true", highlightLinks |-> "true", focusIndicator |-> "true"])
       [] n = "dyslexic" ->
            ObjectAssign(defaultSettings,
              [dyslexicFont |-> "true", lineHeight |-> "true",
               letterSpacing |-> "true", fontSize |-> "120"])
       [] n = "senior" ->
            ObjectAssign(defaultSettings,
              [fontSize |-> "150", highlightLinks |-> "true",
               bigCursor |-> "true", focusIndicator |-> "true"])
       [] n = "lowVision" ->
            ObjectAssign(defaultSettings,
              [fontSize |-> "175", contrast |-> "true",
               highlightLinks |-> "true", bigCursor |-> "true"])
       [] n = "motor" ->
            ObjectAssign(defaultSettings,
              [bigCursor |-> "true", focusIndicator |-> "true", pauseAnimations |-> "true"])
       [] n = "cognitive" ->
            ObjectAssign(defaultSettings,
              [readingGuide |-> "true", pauseAnimations |-> "true", lineHeight |-> "true"])]

-----------------------------------------------------------------------------
(* Storage *)

prefix == "spicy-"

StorageKeys == {prefix \o "spicySettings", prefix \o "spicyProfiles"}

\* localStorage.getItem, removeItem and Object.keys(localStorage) throw
accessThrows == storeEnv = "denied"

\* localStorage.setItem throws
writeThrows == storeEnv \in {"quota", "denied"}

\* Storage.getItem
getItem(m, key) ==
  IF ~isAvailable THEN NullText
  ELSE IF accessThrows THEN NullText
  ELSE m.ls[prefix \o key]

-----------------------------------------------------------------------------
(* The record m threaded through one operation:                            *)
(*   settings, profiles, ls (localStorage), listeners, sets, applied,      *)
(*   log (what the operation did), eid (publishes so far), exc (an         *)
(*   exception is propagating).                                            *)

(*   gen, stale: this.settings is an object reference; gen counts the     *)
(*   objects it was assigned during the operation and stale keeps the      *)
(*   content of the objects it no longer refers to.                        *)

\* what a handler sees through a reference to a settings object
Deref(m, ref) == IF ref = m.gen THEN m.settings ELSE m.stale[ref]

\* this.settings = obj
AssignSettings(m, obj) ==
  [m EXCEPT !.stale = Append(@, m.settings), !.gen = @ + 1, !.settings = obj]

\* the arguments of a publish: a settings object (objects are numbered from 1,
\* 0 for none), a name, a detail
Args(ref, name, detail) == [ref |-> ref, name |-> name, detail |-> detail]

HasRef(args) == args.ref > 0

\* what is delivered, with (synced) what a handler would find if it compared
\* the persisted settings with the manager's at that moment
Seen(m, args) ==
  [settings |-> IF HasRef(args) THEN Deref(m, args.ref) ELSE EmptyObj,
   name |-> args.name, detail |-> args.detail,
   synced |-> m.ls[prefix \o "spicySettings"] = JSONstringify(m.settings)]

Entry(t, ch, id, h, seen) == [t |-> t, ch |-> ch, id |-> id, h |-> h, args |-> seen]

Log(m, t, ch, id, h, args) ==
  [m EXCEPT !.log = Append(@, Entry(t, ch, id, h, Seen(m, args)))]

NoArgs == Args(0, "", EmptyObj)

setItemRefused_ignoresAutoSave == ~isAvailable

\* if (!this.isAvailable || !this.autoSave) return false
setItemRefused == ~isAvailable \/ ~autoSave

setItem_alwaysWrites(m, key, value) ==
  Log([m EXCEPT !.ls[prefix \o key] = value], "setItem:true", key, 0, "", NoArgs)

\* Storage.setItem
setItem(m, key, value) ==
  IF setItemRefused
    THEN Log(m, "setItem:false", key, 0, "", NoArgs)
  ELSE IF writeThrows
    THEN Log(Log(m, "caught", key, 0, "", NoArgs), "setItem:false", key, 0, "", NoArgs)
  ELSE Log([m EXCEPT !.ls[prefix \o key] = value], "setItem:true", key, 0, "", NoArgs)

removeItem_unguarded(m, key) ==
  [m EXCEPT !.ls[prefix \o key] = NullText, !.ret = "true"]

\* Storage.removeItem
removeItem(m, key) ==
  IF ~isAvailable THEN [m EXCEPT !.ret = "false"]
  ELSE IF accessThrows THEN [Log(m, "caught", key, 0, "", NoArgs) EXCEPT !.ret = "false"]
  ELSE [m EXCEPT !.ls[prefix \o key] = NullText, !.ret = "true"]

\* key.startsWith(this.prefix), for the names the model stores
startsWithPrefix(k) == \E key \in {"spicySettings", "spicyProfiles", "test"} : k = prefix \o key

\* Storage.clear
clearStorage(m) ==
  IF ~isAvailable THEN [m EXCEPT !.ret = "false"]
  ELSE IF accessThrows THEN [Log(m, "caught", "", 0, "", NoArgs) EXCEPT !.ret = "false"]
  ELSE [m EXCEPT !.ls = [k \in DOMAIN m.ls |->
                           IF startsWithPrefix(k) THEN NullText ELSE m.ls[k]],
                 !.ret = "true"]

-----------------------------------------------------------------------------
(* Subscribers.  "applySettings" is a feature module's handler,           *)
(* "faulty" throws, "exclusive" resolves darkMode/lightMode by calling     *)
(* back into the manager, "logger" only logs, "remover" unsubscribes       *)
(* "logger" from the channel being published, "republish" publishes the    *)
(* event it received once more, "rearm" subscribes itself again with        *)
(* once() on the event it received.                                        *)

Empty == "<empty>"

\* Set.prototype.add
SetAdd(s, e) == IF \E i \in DOMAIN s : s[i] = e THEN s ELSE Append(s, e)

\* Set.prototype.size
SetSize(s) == Cardinality({i \in DOMAIN s : s[i] # Empty})

\* EventBus.on (the registration; the returned function is unsubscribe)
on(b, event, callback) ==
  LET b1 == IF event \in DOMAIN b.listeners THEN b
            ELSE [listeners |-> (event :> (Len(b.sets) + 1)) @@ b.listeners,
                  sets |-> Append(b.sets, <<>>)]
      sid == b1.listeners[event]
  IN [b1 EXCEPT !.sets[sid] = SetAdd(@, callback)]

\* EventBus.listenerCount
listenerCount(b, event) ==
  IF event \in DOMAIN b.listeners THEN SetSize(b.sets[b.listeners[event]]) ELSE 0

\* new EventBus()
NewBus == [listeners |-> <<>>, sets |-> <<>>]

RECURSIVE SubscribeAll(_, _)
SubscribeAll(b, subs) ==
  IF subs = <<>> THEN b
  ELSE SubscribeAll(on(b, Head(subs)[1], Head(subs)[2]), Tail(subs))

SubsFaulty ==
  << <<"settings:changed", "faulty">>, <<"settings:changed", "applySettings">>,
     <<"*", "faulty">>, <<"*", "logger">> >>

SubsReentrant ==
  << <<"settings:changed", "exclusive">>, <<"settings:changed", "applySettings">> >>

Subscriptions == {SubsFaulty, SubsReentrant}

-----------------------------------------------------------------------------
(* The bus inside a running operation.  m.unsubs holds the closures         *)
(* returned by on(): the Set, the channel and the callback each captured;   *)
(* for once() the callback is the wrapper, named like its closure, and      *)
(* once is the wrapped handler.                                             *)

\* Set.prototype.delete
SetDelete(s, e) == [i \in DOMAIN s |-> IF s[i] = e THEN Empty ELSE s[i]]

\* Set.prototype.has
SetHas(s, e) == \E i \in DOMAIN s : s[i] = e

TokenIds ==
  <<"u1", "u2", "u3", "u4", "u5", "u6", "u7", "u8", "u9", "u10", "u11", "u12">>

\* how often one operation is followed through a handler that subscribes
\* itself again; an iteration that needs more is recorded as cut off
MaxRearm == 3

RearmCalls(m) ==
  Cardinality({i \in DOMAIN m.log : m.log[i].t = "call" /\ m.log[i].h = "rearm"})

NextToken(m) == TokenIds[Cardinality(DOMAIN m.unsubs) + 1]

\* handlers.delete(callback); if (handlers.size === 0) this.listeners.delete(event)
DeleteFrom(m, sid, event, callback) ==
  LET m1 == IF SetHas(m.sets[sid], callback)
              THEN Log([m EXCEPT !.sets[sid] = SetDelete(@, callback)],
                       "removed", event, sid, callback, NoArgs)
              ELSE m
  IN IF SetSize(m1.sets[sid]) = 0
       THEN [m1 EXCEPT !.listeners = Delete(@, event)]
       ELSE m1

\* EventBus.on, with the function it returns
busOn(m, event, callback, wrapped) ==
  LET b == on([listeners |-> m.listeners, sets |-> m.sets], event, callback)
  IN [m EXCEPT !.listeners = b.listeners, !.sets = b.sets,
               !.unsubs = (NextToken(m) :>
                             [sid |-> b.listeners[event], event |-> event,
                              cb |-> callback, once |-> wrapped, fired |-> 0]) @@ @]

\* EventBus.once
busOnce(m, event, callback) == busOn(m, event, NextToken(m), callback)

runUnsub_nothing(m, u) == m

\* the function returned by EventBus.on
runUnsub(m, u) == DeleteFrom(m, m.unsubs[u].sid, m.unsubs[u].event, m.unsubs[u].cb)

\* EventBus.off
off(m, event, callback) ==
  IF event \notin DOMAIN m.listeners THEN [m EXCEPT !.ret = "false"]
  ELSE LET sid == m.listeners[event]
       IN [DeleteFrom(m, sid, event, callback) EXCEPT
             !.ret = IF SetHas(m.sets[sid], callback) THEN "true" ELSE "false"]

\* EventBus.clear
clear(m, event) ==
  IF event # "" THEN [m EXCEPT !.listeners = Delete(@, event)]
  ELSE [m EXCEPT !.listeners = EmptyObj]

-----------------------------------------------------------------------------
(* EventBus.emit and the manager's operations *)

RECURSIVE emit(_, _, _), forEach(_, _, _, _, _, _, _), call(_, _, _, _, _, _),
          save(_), updateSetting(_, _, _)

catch_rethrow(r, event, id, h) == r

\* catch (e) { console.error(...) }
catch(r, event, id, h) ==
  IF r.exc THEN Log([r EXCEPT !.exc = FALSE], "error", event, id, h, NoArgs) ELSE r

\* callback(...args)
call(m, h, ch, event, id, args) ==
  LET m1 == Log(m, "call", ch, id, h, args)
  IN CASE h = "applySettings" ->
            IF ch = "*" \/ ~HasRef(args) THEN m1
            ELSE [m1 EXCEPT !.applied = Spread(Deref(m1, args.ref))]
       [] h = "faulty" -> [m1 EXCEPT !.exc = TRUE]
       [] h = "exclusive" ->
            IF PropGet(m1.settings, "darkMode") = "true"
               /\ PropGet(m1.settings, "lightMode") = "true"
              THEN updateSetting(Log(m1, "reenter", ch, id, h, NoArgs), "lightMode", "false")
              ELSE m1
       [] h = "remover" -> off(m1, event, "logger")
       [] h = "republish" ->
            IF m1.busy THEN m1
            ELSE [emit([m1 EXCEPT !.busy = TRUE], event, args) EXCEPT !.busy = FALSE]
       [] h = "rearm" ->
            \* bus.once(event, rearm)
            IF RearmCalls(m1) <= MaxRearm /\ Cardinality(DOMAIN m1.unsubs) < Len(TokenIds)
              THEN busOnce(m1, event, "rearm")
              ELSE Log(m1, "cut", ch, id, h, NoArgs)
       [] h \in DOMAIN m1.unsubs ->
            \* (...args) => { unsubscribe(); callback(...args); }
            call(runUnsub([m1 EXCEPT !.unsubs[h].fired = @ + 1], h),
                 m1.unsubs[h].once, "(once)", event, id, args)
       [] OTHER -> m1

\* handlers.forEach(callback => { try { callback(...args) } catch ... })
forEach(m, sid, idx, ch, event, id, args) ==
  IF m.exc \/ idx > Len(m.sets[sid]) THEN m
  ELSE IF m.sets[sid][idx] = Empty THEN forEach(m, sid, idx + 1, ch, event, id, args)
  ELSE LET h == m.sets[sid][idx]
       IN forEach(catch(call(m, h, ch, event, id, args), event, id, h),
                  sid, idx + 1, ch, event, id, args)

\* EventBus.emit
emit(m, event, args) ==
  LET id == m.eid + 1
      m0 == Log([m EXCEPT !.eid = id], "emit", event, id, "", args)
      m1 == IF event \in DOMAIN m0.listeners
              THEN forEach(m0, m0.listeners[event], 1, event, event, id, args)
              ELSE m0
  IN IF ~m1.exc /\ "*" \in DOMAIN m1.listeners
       THEN forEach(m1, m1.listeners["*"], 1, "*", event, id, args)
       ELSE m1

save_merge(m) ==
  LET stored == getItem(m, "spicySettings")
      m1 == setItem(m, "spicySettings",
                    JSONstringify(ObjectAssign(JSONparse(stored), m.settings)))
  IN emit(m1, "settings:saved", Args(m1.gen, "", EmptyObj))

\* Settings.save
save(m) ==
  LET m1 == setItem(m, "spicySettings", JSONstringify(m.settings))
  IN emit(m1, "settings:saved", Args(m1.gen, "", EmptyObj))

updateSetting_notifyFirst(m, key, value) ==
  LET m1 == [m EXCEPT !.settings = PropSet(@, key, value)]
      m2 == emit(m1, "settings:changed",
                 Args(m1.gen, "", [key |-> key, value |-> value]))
  IN IF m2.exc THEN m2 ELSE save(m2)

\* Settings.updateSetting
updateSetting(m, key, value) ==
  LET m1 == [m EXCEPT !.settings = PropSet(@, key, value)]
      m2 == save(m1)
  IN IF m2.exc THEN m2
     ELSE emit(m2, "settings:changed",
               Args(m2.gen, "", [key |-> key, value |-> value]))

\* Settings.updateSettings
updateSettings(m, updates) ==
  LET m1 == [m EXCEPT !.settings = ObjectAssign(@, updates)]
      m2 == save(m1)
  IN IF m2.exc THEN m2
     ELSE emit(m2, "settings:changed", Args(m2.gen, "", [updates |-> updates]))

\* Settings.getSetting
getSetting(s, key) == PropGet(s, key)

\* Settings.getAll
getAll(s) == Spread(s)

\* Settings.getProfiles
getProfiles(p) == Spread(p)

resetAll_merge(m) ==
  LET m1 == AssignSettings(m, ObjectAssign(m.settings, defaultSettings))
      m2 == save(m1)
  IN IF m2.exc THEN m2
     ELSE emit(m2, "settings:reset", Args(m2.gen, "", EmptyObj))

\* Settings.resetAll
resetAll(m) ==
  LET m1 == AssignSettings(m, Spread(defaultSettings))
      m2 == save(m1)
  IN IF m2.exc THEN m2
     ELSE emit(m2, "settings:reset", Args(m2.gen, "", EmptyObj))

load_merge(m) ==
  LET savedSettings == getItem(m, "spicySettings")
      m1 == AssignSettings(m, ObjectAssign(m.settings,
                                IF Truthy(savedSettings) THEN JSONparse(savedSettings)
                                ELSE Spread(defaultSettings)))
      savedProfiles == getItem(m1, "spicyProfiles")
      m2 == [m1 EXCEPT !.profiles = IF Truthy(savedProfiles) THEN JSONparse(savedProfiles)
                                    ELSE getDefaultProfiles]
  IN emit(m2, "settings:loaded", Args(m2.gen, "", EmptyObj))

\* Settings.load
load(m) ==
  LET savedSettings == getItem(m, "spicySettings")
  IN IF Truthy(savedSettings) /\ JSONparseThrows(savedSettings)
       THEN [m EXCEPT !.exc = TRUE]
       ELSE
  LET m1 == AssignSettings(m, IF Truthy(savedSettings) THEN JSONparse(savedSettings)
                              ELSE Spread(defaultSettings))
      savedProfiles == getItem(m1, "spicyProfiles")
  IN IF Truthy(savedProfiles) /\ JSONparseThrows(savedProfiles)
       THEN [m1 EXCEPT !.exc = TRUE]
       ELSE
  LET m2 == [m1 EXCEPT !.profiles = IF Truthy(savedProfiles) THEN JSONparse(savedProfiles)
                                    ELSE getDefaultProfiles]
  IN emit(m2, "settings:loaded", Args(m2.gen, "", EmptyObj))

isDefault_never(profileName) == FALSE

\* profileName === 'default'
isDefault(profileName) == profileName = "default"

isBuiltIn_onlyDefault(profileName) == profileName = "default"

isBuiltIn_oneMissing(profileName) == profileName \in builtInProfiles \ {"cognitive"}

\* builtInProfiles.includes(profileName)
isBuiltIn(profileName) == profileName \in builtInProfiles

loadProfile_merge(m, profileName) ==
  IF profileName \in DOMAIN m.profiles \/ profileName \in ObjectPrototypeNames
    THEN LET m1 == AssignSettings(m, IF profileName \in DOMAIN m.profiles
                                       THEN ObjectAssign(m.settings, m.profiles[profileName])
                                       ELSE EmptyObj)
             m2 == save(m1)
         IN IF m2.exc THEN m2
            ELSE emit(m2, "settings:profile:loaded", Args(m2.gen, profileName, EmptyObj))
    ELSE Log(m, "warn", "", 0, "", NoArgs)

\* Settings.loadProfile
loadProfile(m, profileName) ==
  IF profileName \in DOMAIN m.profiles \/ profileName \in ObjectPrototypeNames
    THEN LET m1 == AssignSettings(m, IF profileName \in DOMAIN m.profiles
                                       THEN Spread(m.profiles[profileName])
                                       ELSE EmptyObj)
             m2 == save(m1)
         IN IF m2.exc THEN m2
            ELSE emit(m2, "settings:profile:loaded", Args(m2.gen, profileName, EmptyObj))
    ELSE Log(m, "warn", "", 0, "", NoArgs)

saveProfile_unsaved(m, profileName) ==
  IF isDefault(profileName)
    THEN [Log(m, "warn", "", 0, "", NoArgs) EXCEPT !.ret = "false"]
    ELSE LET m1 == [m EXCEPT !.profiles = PropSet(@, profileName, Spread(m.settings))]
             m3 == emit(m1, "settings:profile:saved", Args(m1.gen, profileName, EmptyObj))
         IN IF m3.exc THEN m3 ELSE [m3 EXCEPT !.ret = "true"]

\* Settings.saveProfile
saveProfile(m, profileName) ==
  IF isDefault(profileName)
    THEN [Log(m, "warn", "", 0, "", NoArgs) EXCEPT !.ret = "false"]
    ELSE LET m1 == [m EXCEPT !.profiles = PropSet(@, profileName, Spread(m.settings))]
             m2 == setItem(m1, "spicyProfiles", JSONstringifyNested(m1.profiles))
             m3 == emit(m2, "settings:profile:saved", Args(m2.gen, profileName, EmptyObj))
         IN IF m3.exc THEN m3 ELSE [m3 EXCEPT !.ret = "true"]

\* Settings.deleteProfile
deleteProfile(m, profileName) ==
  IF isBuiltIn(profileName)
    THEN [Log(m, "warn", "", 0, "", NoArgs) EXCEPT !.ret = "false"]
  ELSE IF profileName \in DOMAIN m.profiles \/ profileName \in ObjectPrototypeNames
    THEN LET m1 == [m EXCEPT !.profiles = Delete(@, profileName)]
             m2 == setItem(m1, "spicyProfiles", JSONstringifyNested(m1.profiles))
             m3 == emit(m2, "settings:profile:deleted", Args(0, profileName, EmptyObj))
         IN IF m3.exc THEN m3 ELSE [m3 EXCEPT !.ret = "true"]
  ELSE [m EXCEPT !.ret = "false"]

-----------------------------------------------------------------------------
(* Inputs *)

UpdateInputs ==
  {<<"fontSize", "150">>, <<"darkMode", "true">>, <<"lightMode", "true">>,
   <<"myKey", Undefined>>, <<"__proto__", "true">>}

UpdatesInputs ==
  {EmptyObj, [fontSize |-> "120", myKey |-> "on"],
   [darkMode |-> "true", lightMode |-> "true"]}

LoadNames == {"default", "highContrast", "foo", "toString"}

SaveNames == {"default", "highContrast", "foo"}

DeleteNames == builtInProfiles \cup {"foo", "toString"}

-----------------------------------------------------------------------------
(* State machine *)

NoSnap == [name |-> "", S |-> EmptyObj, valid |-> FALSE, used |-> FALSE, mid |-> 0]

Op(op, name, key, value, updates, m) ==
  [op |-> op, name |-> name, key |-> key, value |-> value, updates |-> updates,
   ret |-> m.ret, threw |-> m.exc, log |-> m.log]

Start ==
  [settings |-> settings, profiles |-> profiles, ls |-> localStorage,
   listeners |-> listeners, sets |-> sets, unsubs |-> unsubs, applied |-> applied,
   log |-> <<>>, eid |-> 0, exc |-> FALSE, gen |-> 1, stale |-> <<>>,
   busy |-> FALSE, ret |-> Undefined]

\* the operation wrote the entry key to the browser's store
Wrote(m, key) ==
  \E i \in DOMAIN m.log : m.log[i].t = "setItem:true" /\ m.log[i].ch = key

Commit(m) ==
  /\ settings' = m.settings
  /\ profiles' = m.profiles
  /\ localStorage' = m.ls
  /\ listeners' = m.listeners
  /\ sets' = m.sets
  /\ unsubs' = m.unsubs
  /\ applied' = m.applied
  /\ writer' = [k \in DOMAIN writer |-> IF Wrote(m, k) THEN other.current ELSE writer[k]]
  /\ nops' = nops + 1
  /\ UNCHANGED <<isAvailable, autoSave, storeEnv, subscriptions, initialProfile,
                 prevSession, other>>

NoSession == [had |-> FALSE, end |-> EmptyObj]

\* the second tab before its manager is constructed; current is the number
\* of the tab whose manager the variables settings and profiles describe
NoOther == [current |-> 1, settings |-> EmptyObj, profiles |-> EmptyObj,
            applied |-> EmptyObj, loaded |-> FALSE]

NoWriter == [k \in {"spicySettings", "spicyProfiles"} |-> 0]

Init ==
  /\ settings = EmptyObj
  /\ profiles = EmptyObj
  /\ localStorage = [k \in StorageKeys |-> NullText]
  /\ isAvailable \in BOOLEAN
  /\ autoSave \in BOOLEAN
  /\ isAvailable \/ autoSave
  /\ subscriptions \in Subscriptions
  /\ listeners = SubscribeAll(NewBus, subscriptions).listeners
  /\ sets = SubscribeAll(NewBus, subscriptions).sets
  /\ unsubs = EmptyObj
  /\ applied = EmptyObj
  /\ loaded = FALSE
  /\ lastOp = Op("init", "", "", "", EmptyObj, Start)
  /\ fresh = FALSE
  /\ snap = NoSnap
  /\ initialProfile = "default"
  /\ prevSession = NoSession
  /\ other = NoOther
  /\ writer = NoWriter
  /\ storeEnv = "ok"
  /\ nops = 0

\* SpicyAccessibility.init up to the call of load(): a page (re)load
NewSession ==
  /\ nops < MaxOps
  /\ \E avail \in BOOLEAN :
       /\ isAvailable' = avail
       /\ settings' = EmptyObj
       /\ profiles' = EmptyObj
       /\ listeners' = SubscribeAll(NewBus, subscriptions).listeners
       /\ sets' = SubscribeAll(NewBus, subscriptions).sets
       /\ unsubs' = EmptyObj
       /\ applied' = EmptyObj
       /\ loaded' = FALSE
       /\ lastOp' = [Op("init", "", "", "", EmptyObj, Start) EXCEPT !.log = <<>>]
       /\ fresh' = FALSE
       /\ snap' = NoSnap
       /\ nops' = nops + 1
       /\ UNCHANGED <<localStorage, autoSave, storeEnv, subscriptions, initialProfile,
                      prevSession, other, writer>>

Load ==
  /\ nops < MaxOps
  /\ \E m \in {load(Start)} :
        /\ Commit(m)
        /\ lastOp' = Op("load", "", "", "", EmptyObj, m)
        /\ loaded' = ~m.exc
        /\ fresh' = (~m.exc /\ ~Truthy(getItem(Start, "spicyProfiles")))
        /\ snap' = NoSnap

UpdateSetting ==
  /\ nops < MaxOps
  /\ \E kv \in UpdateInputs :
       \E m \in {updateSetting(Start, kv[1], kv[2])} :
          /\ Commit(m)
          /\ lastOp' = Op("updateSetting", "", kv[1], kv[2], EmptyObj, m)
          /\ snap' = IF snap.valid THEN [snap EXCEPT !.mid = 1] ELSE NoSnap
          /\ UNCHANGED <<loaded, fresh>>

UpdateSettings ==
  /\ nops < MaxOps
  /\ \E u \in UpdatesInputs :
       \E m \in {updateSettings(Start, u)} :
          /\ Commit(m)
          /\ lastOp' = Op("updateSettings", "", "", "", u, m)
          /\ snap' = IF snap.valid THEN [snap EXCEPT !.mid = 1] ELSE NoSnap
          /\ UNCHANGED <<loaded, fresh>>

ResetAll ==
  /\ nops < MaxOps
  /\ \E m \in {resetAll(Start)} :
        /\ Commit(m)
        /\ lastOp' = Op("resetAll", "", "", "", EmptyObj, m)
        /\ snap' = IF snap.valid THEN [snap EXCEPT !.mid = 1] ELSE NoSnap
        /\ UNCHANGED <<loaded, fresh>>

LoadProfile ==
  /\ nops < MaxOps
  /\ \E n \in LoadNames :
       \E m \in {loadProfile(Start, n)} :
          /\ Commit(m)
          /\ lastOp' = Op("loadProfile", n, "", "", EmptyObj, m)
          /\ snap' = IF snap.valid /\ snap.name = n
                       THEN [snap EXCEPT !.valid = FALSE, !.used = TRUE]
                       ELSE NoSnap
          /\ UNCHANGED <<loaded, fresh>>

SaveProfile ==
  /\ nops < MaxOps
  /\ \E n \in SaveNames :
       \E m \in {saveProfile(Start, n)} :
          /\ Commit(m)
          /\ lastOp' = Op("saveProfile", n, "", "", EmptyObj, m)
          /\ snap' = IF m.ret = "true"
                       THEN [name |-> n, S |-> getAll(settings), valid |-> TRUE,
                             used |-> FALSE, mid |-> 0]
                       ELSE NoSnap
          /\ UNCHANGED <<loaded, fresh>>

DeleteProfile ==
  /\ nops < MaxOps
  /\ \E n \in DeleteNames :
       \E m \in {deleteProfile(Start, n)} :
          /\ Commit(m)
          /\ lastOp' = Op("deleteProfile", n, "", "", EmptyObj, m)
          /\ snap' = NoSnap
          /\ UNCHANGED <<loaded, fresh>>

Next ==
  \/ NewSession
  \/ Load
  \/ UpdateSetting
  \/ UpdateSettings
  \/ ResetAll
  \/ LoadProfile
  \/ SaveProfile
  \/ DeleteProfile

Spec == Init /\ [][Next]_vars

\* The same program started on a store in which another script (or an
\* earlier version) left entries that are not JSON.
InitCorrupt ==
  /\ settings = EmptyObj
  /\ profiles = EmptyObj
  /\ localStorage \in [StorageKeys -> {NullText, GarbageText}]
  /\ \E k \in StorageKeys : localStorage[k] = GarbageText
  /\ isAvailable = TRUE
  /\ autoSave \in BOOLEAN
  /\ subscriptions = SubsFaulty
  /\ listeners = SubscribeAll(NewBus, subscriptions).listeners
  /\ sets = SubscribeAll(NewBus, subscriptions).sets
  /\ unsubs = EmptyObj
  /\ applied = EmptyObj
  /\ loaded = FALSE
  /\ lastOp = Op("init", "", "", "", EmptyObj, Start)
  /\ fresh = FALSE
  /\ snap = NoSnap
  /\ initialProfile = "default"
  /\ prevSession = NoSession
  /\ other = NoOther
  /\ writer = NoWriter
  /\ storeEnv = "ok"
  /\ nops = 0

SpecCorrupt == InitCorrupt /\ [][Next]_vars

-----------------------------------------------------------------------------
(* The widget as a page uses it: every session starts with                  *)
(* SpicyAccessibility.init(config), the store is usable.                    *)

InitialProfiles == {"default", "highContrast"}

InitPage ==
  /\ settings = EmptyObj
  /\ profiles = EmptyObj
  /\ localStorage = [k \in StorageKeys |-> NullText]
  /\ isAvailable = TRUE
  /\ autoSave \in BOOLEAN
  /\ subscriptions \in Subscriptions
  /\ listeners = NewBus.listeners
  /\ sets = NewBus.sets
  /\ unsubs = EmptyObj
  /\ applied = EmptyObj
  /\ loaded = FALSE
  /\ lastOp = Op("init", "", "", "", EmptyObj, Start)
  /\ fresh = FALSE
  /\ snap = NoSnap
  /\ initialProfile \in InitialProfiles
  /\ prevSession = NoSession
  /\ other = NoOther
  /\ writer = NoWriter
  /\ storeEnv = "ok"
  /\ nops = 0

\* SpicyAccessibility.init up to the initial profile: new bus, storage and
\* manager, load(), the widget and the feature modules subscribe and apply
\* the settings
construct(m, subs) ==
  LET m1 == load([m EXCEPT !.settings = EmptyObj, !.profiles = EmptyObj,
                           !.listeners = NewBus.listeners, !.sets = NewBus.sets,
                           !.unsubs = EmptyObj, !.applied = EmptyObj])
      bus == SubscribeAll(NewBus, subs)
  IN IF m1.exc THEN m1
     ELSE [m1 EXCEPT !.listeners = bus.listeners, !.sets = bus.sets,
                     !.applied = getAll(m1.settings)]

\* SpicyAccessibility.init: construction, then the initial profile is applied
\* unless it is 'default'
InitApp ==
  /\ nops < MaxOps
  /\ \E c \in {construct(Start, subscriptions)} :
       \E m \in {IF ~c.exc /\ initialProfile # "default"
                  THEN loadProfile(c, initialProfile)
                  ELSE c} :
          /\ settings' = m.settings
          /\ profiles' = m.profiles
          /\ localStorage' = m.ls
          /\ listeners' = m.listeners
          /\ sets' = m.sets
          /\ unsubs' = m.unsubs
          /\ applied' = m.applied
          /\ loaded' = ~m.exc
          /\ lastOp' = Op("init()", initialProfile, "", "", EmptyObj, m)
          /\ fresh' = FALSE
          /\ snap' = NoSnap
          /\ prevSession' = [had |-> loaded, end |-> getAll(settings)]
          /\ nops' = nops + 1
          /\ writer' = [k \in DOMAIN writer |-> IF Wrote(m, k) THEN other.current ELSE writer[k]]
          /\ UNCHANGED <<isAvailable, autoSave, storeEnv, subscriptions, initialProfile, other>>

NextApp ==
  \/ InitApp
  \/ loaded /\ UpdateSetting
  \/ loaded /\ UpdateSettings
  \/ loaded /\ ResetAll
  \/ loaded /\ LoadProfile
  \/ loaded /\ SaveProfile
  \/ loaded /\ DeleteProfile

SpecApp == InitPage /\ [][NextApp]_vars

-----------------------------------------------------------------------------
(* Properties *)

\* the entries of the last operation's log that satisfy a test
Emitted(ch) ==
  {i \in DOMAIN lastOp.log : lastOp.log[i].t = "emit" /\ lastOp.log[i].ch = ch}

AnyEmitted == {i \in DOMAIN lastOp.log : lastOp.log[i].t = "emit"}

Reentered == \E i \in DOMAIN lastOp.log : lastOp.log[i].t = "reenter"

Calls(id, ch, h) ==
  {i \in DOMAIN lastOp.log :
     /\ lastOp.log[i].t = "call"
     /\ lastOp.log[i].id = id
     /\ lastOp.log[i].ch = ch
     /\ lastOp.log[i].h = h}

SubscribersOf(ch) ==
  IF ch \in DOMAIN listeners
    THEN {sets[listeners[ch]][i] : i \in DOMAIN sets[listeners[ch]]} \ {Empty}
    ELSE {}

\* C1: after load() has returned, every key of the built-in default mapping
\* is a key of the current settings mapping.
C1_DefaultKeysPresent == loaded => DefaultKeys \subseteq DOMAIN settings

\* C2: after load() has returned, profiles["default"] exists and equals the
\* built-in default mapping.
C2_DefaultProfileIntact ==
  loaded => /\ "default" \in DOMAIN profiles
            /\ profiles["default"] = defaultSettings

\* C3 (as stated): after load() on a store without persisted profiles, the
\* content stored under each of the seven built-in names never changes.
C3_BuiltInsImmutable ==
  fresh => \A n \in builtInProfiles :
             n \in DOMAIN profiles /\ profiles[n] = getDefaultProfiles[n]

\* C3 (amended): after load() on a store without persisted profiles, none of
\* the seven built-in names is ever removed and the content of default never
\* changes; the content of one of the six presets changes only by
\* saveProfile under that name, which stores a copy of the current settings.
C3_OnlyDefaultImmutable ==
  [][fresh' =>
       /\ builtInProfiles \subseteq DOMAIN profiles'
       /\ profiles'["default"] = defaultSettings
       /\ \A n \in builtInProfiles \ {"default"} :
            IF fresh /\ lastOp'.op # "load"
              THEN profiles'[n] # profiles[n] =>
                     /\ lastOp'.op = "saveProfile"
                     /\ lastOp'.name = n
                     /\ profiles'[n] = getAll(settings)
              ELSE profiles'[n] = getDefaultProfiles[n]]_vars

C3_Witness ==
  /\ fresh
  /\ lastOp.op = "saveProfile"
  /\ lastOp.name = "highContrast"
  /\ profiles["highContrast"] # getDefaultProfiles["highContrast"]
  /\ profiles["default"] = defaultSettings

\* C4: saveProfile("default") returns false, leaves the profile mapping and
\* the persistent store unchanged and publishes no event, in every state.
C4_SaveDefaultRejected ==
  [][(nops' = nops + 1 /\ lastOp'.op = "saveProfile" /\ lastOp'.name = "default") =>
       /\ lastOp'.ret = "false"
       /\ ~lastOp'.threw
       /\ profiles' = profiles
       /\ localStorage' = localStorage
       /\ \A i \in DOMAIN lastOp'.log : lastOp'.log[i].t # "emit"]_vars

C4_Witness ==
  /\ lastOp.op = "saveProfile"
  /\ lastOp.name = "default"
  /\ lastOp.ret = "false"
  /\ loaded
  /\ settings # defaultSettings

\* C5: deleteProfile(x) for each of the seven reserved names returns false,
\* leaves the profile mapping and the persisted profiles unchanged and
\* publishes no event, in every state.
C5_DeleteReservedRejected ==
  [][(nops' = nops + 1 /\ lastOp'.op = "deleteProfile"
        /\ lastOp'.name \in builtInProfiles) =>
       /\ lastOp'.ret = "false"
       /\ ~lastOp'.threw
       /\ profiles' = profiles
       /\ localStorage' = localStorage
       /\ \A i \in DOMAIN lastOp'.log : lastOp'.log[i].t # "emit"]_vars

C5_Witness ==
  /\ lastOp.op = "deleteProfile"
  /\ lastOp.name = "cognitive"
  /\ lastOp.ret = "false"
  /\ loaded
  /\ "cognitive" \in DOMAIN profiles

\* what C6 promises of an updateSetting(key, value) that has returned
UpdateSettingPost ==
  /\ ~lastOp.threw
  /\ getSetting(settings, lastOp.key) = lastOp.value
  /\ Cardinality(Emitted("settings:changed")) = 1
  /\ \A i \in Emitted("settings:changed") :
       lastOp.log[i].args.detail = [key |-> lastOp.key, value |-> lastOp.value]

\* C6 (as stated): for every key and value, when updateSetting(key, value)
\* returns, getSetting(key) = value and settings:changed was published
\* exactly once during the call, with detail {key, value}.
C6_UpdateSettingAnyKey == lastOp.op = "updateSetting" => UpdateSettingPost

\* C6 (amended): the same for every key other than "__proto__", provided no
\* handler invoked during the call calls back into the manager.
C6_UpdateSetting ==
  (lastOp.op = "updateSetting" /\ lastOp.key # "__proto__" /\ ~Reentered)
    => UpdateSettingPost

C6_Witness ==
  /\ lastOp.op = "updateSetting"
  /\ lastOp.key = "fontSize"
  /\ lastOp.value = "150"
  /\ loaded
  /\ settings["fontSize"] = "150"
  /\ Cardinality(Emitted("settings:changed")) = 1

\* C7: after any history, loadProfile("default") followed by getAll() yields
\* the built-in default mapping.
C7_LoadDefaultYieldsDefaults ==
  (loaded /\ lastOp.op = "loadProfile" /\ lastOp.name = "default")
    => getAll(settings) = defaultSettings

\* C8: for a non-reserved name n, saveProfile(n) at settings S, then any
\* updateSetting/updateSettings/resetAll calls, then loadProfile(n): getAll()
\* equals S.
C8_RoundTrip ==
  (snap.used /\ snap.name \notin builtInProfiles) => getAll(settings) = snap.S

C8_Witness ==
  /\ snap.used
  /\ snap.name = "foo"
  /\ snap.mid = 1
  /\ loaded
  /\ lastOp.op = "loadProfile"
  /\ getAll(settings) = snap.S

\* C9: after resetAll(), the settings mapping is exactly the built-in default
\* mapping: every default key has its default value and no other key remains.
C9_ResetAllExact ==
  lastOp.op = "resetAll" =>
    /\ DOMAIN settings = DefaultKeys
    /\ \A k \in DefaultKeys : getSetting(settings, k) = defaultSettings[k]

C9_Witness ==
  /\ lastOp.op = "resetAll"
  /\ "myKey" \in DOMAIN applied
  /\ "myKey" \notin DOMAIN settings
  /\ settings = defaultSettings

\* C10: in every publish, a handler that throws does not keep any handler of
\* the channel or of the wildcard channel from being invoked exactly once,
\* and the error does not reach the caller of the operation.
C10_SubscriberIsolation ==
  /\ ~lastOp.threw
  /\ \A e \in AnyEmitted :
       /\ \A h \in SubscribersOf(lastOp.log[e].ch) :
            Cardinality(Calls(lastOp.log[e].id, lastOp.log[e].ch, h)) = 1
       /\ \A h \in SubscribersOf("*") :
            Cardinality(Calls(lastOp.log[e].id, "*", h)) = 1

C10_Witness ==
  /\ lastOp.op = "updateSetting"
  /\ ~lastOp.threw
  /\ \E i, j, k \in DOMAIN lastOp.log :
       /\ i < j /\ j < k
       /\ lastOp.log[i].t = "error" /\ lastOp.log[i].ch = "settings:changed"
       /\ lastOp.log[j].t = "call" /\ lastOp.log[j].h = "applySettings"
       /\ lastOp.log[j].id = lastOp.log[i].id
       /\ lastOp.log[k].t = "call" /\ lastOp.log[k].h = "logger"
       /\ lastOp.log[k].id = lastOp.log[i].id

\* the mapping delivered with the first publish of the last operation
FirstPublished == lastOp.log[CHOOSE i \in AnyEmitted : \A j \in AnyEmitted : i <= j].args.settings

SetItemCalls(t) == {i \in DOMAIN lastOp.log : lastOp.log[i].t = t}

\* what C11 promises of an updateSetting(key, value) on an unavailable store
UnavailableUpdatePost ==
  /\ ~lastOp.threw
  /\ AnyEmitted # {}
  /\ getSetting(FirstPublished, lastOp.key) = lastOp.value
  /\ \E i \in Emitted("settings:changed") :
       lastOp.log[i].args.detail = [key |-> lastOp.key, value |-> lastOp.value]
  /\ SetItemCalls("setItem:true") = {}
  /\ SetItemCalls("setItem:false") # {}

\* C11 (as stated): with the store unavailable, updateSetting(key, value)
\* sets the in-memory value, publishes settings:changed, does not throw, and
\* the store's set call reports failure and leaves the store unchanged.
C11_UnavailableAnyKey ==
  [][(nops' = nops + 1 /\ lastOp'.op = "updateSetting" /\ ~isAvailable) =>
       (UnavailableUpdatePost' /\ localStorage' = localStorage)]_vars

\* C11 (amended): the same for every key other than "__proto__".
C11_Unavailable ==
  [][(nops' = nops + 1 /\ lastOp'.op = "updateSetting" /\ ~isAvailable
        /\ lastOp'.key # "__proto__") =>
       (UnavailableUpdatePost' /\ localStorage' = localStorage)]_vars

C11_Witness ==
  /\ lastOp.op = "updateSetting"
  /\ ~isAvailable
  /\ loaded
  /\ lastOp.key = "darkMode"
  /\ settings["darkMode"] = "true"
  /\ SetItemCalls("setItem:false") # {}
  /\ localStorage[prefix \o "spicySettings"] # JSONstringify(settings)

\* C13: loadProfile(name) for a name that is not a key of the profile mapping
\* changes neither the settings, the profiles nor the store, publishes no
\* event and throws nothing.
C13_UnknownProfileNoOp ==
  [][(nops' = nops + 1 /\ lastOp'.op = "loadProfile"
        /\ lastOp'.name \notin DOMAIN profiles) =>
       /\ ~lastOp'.threw
       /\ settings' = settings
       /\ profiles' = profiles
       /\ localStorage' = localStorage
       /\ \A i \in DOMAIN lastOp'.log : lastOp'.log[i].t # "emit"]_vars

\* C14: after load() on a manager without persisted data, getProfiles() has
\* exactly the seven built-in keys and every profile has every default key.
C14_FreshProfiles ==
  (lastOp.op = "load" /\ ~lastOp.threw /\ fresh) =>
    /\ DOMAIN getProfiles(profiles) =
         {"default", "highContrast", "dyslexic", "senior", "lowVision", "motor", "cognitive"}
    /\ \A n \in DOMAIN getProfiles(profiles) :
         DefaultKeys \subseteq DOMAIN getProfiles(profiles)[n]

C14_Witness ==
  /\ lastOp.op = "load"
  /\ fresh
  /\ loaded
  /\ Cardinality(DOMAIN getProfiles(profiles)) = 7
  /\ getProfiles(profiles)["senior"]["fontSize"] = "150"

\* C18: after an operation that changed the settings mapping, the mapping
\* last applied by the feature module equals the manager's mapping.
C18_FeaturesFollow ==
  (/\ lastOp.op \in {"updateSetting", "updateSettings", "resetAll", "loadProfile"}
   /\ Emitted("settings:saved") # {}
   /\ loaded
   /\ applied # EmptyObj)
    => applied = settings

\* C20: deleteProfile(name) for a non-reserved name removes exactly that
\* profile, persists the profile mapping, publishes settings:profile:deleted
\* once with name and returns true when name is a key of the profile
\* mapping; otherwise it returns false, changes nothing and publishes nothing.
C20_DeleteProfile ==
  [][(nops' = nops + 1 /\ lastOp'.op = "deleteProfile"
        /\ lastOp'.name \notin builtInProfiles) =>
       IF lastOp'.name \in DOMAIN profiles
         THEN /\ lastOp'.ret = "true"
              /\ profiles' = Delete(profiles, lastOp'.name)
              /\ (isAvailable /\ autoSave) =>
                   localStorage'[prefix \o "spicyProfiles"] = JSONstringifyNested(profiles')
              /\ Cardinality({i \in DOMAIN lastOp'.log :
                    /\ lastOp'.log[i].t = "emit"
                    /\ lastOp'.log[i].ch = "settings:profile:deleted"
                    /\ lastOp'.log[i].args.name = lastOp'.name}) = 1
         ELSE /\ lastOp'.ret = "false"
              /\ profiles' = profiles
              /\ localStorage' = localStorage
              /\ \A i \in DOMAIN lastOp'.log : lastOp'.log[i].t # "emit"]_vars

\* C12: no public method of the manager throws, whatever the store holds,
\* and after load() the settings mapping has every default key.
C12_NeverThrows ==
  lastOp.op # "init" =>
    /\ ~lastOp.threw
    /\ loaded => DefaultKeys \subseteq DOMAIN settings

\* C19: with autoSave on and a usable store, the settings in effect after
\* init() of a new session equal the settings at the end of the previous
\* session, whatever initialProfile is.
\* (Two mappings are taken as equal when getSetting agrees on every key.)
C19_SettingsSurviveSessions ==
  (lastOp.op = "init()" /\ prevSession.had /\ autoSave /\ isAvailable)
    => \A k \in DOMAIN settings \cup DOMAIN prevSession.end :
         getSetting(settings, k) = getSetting(prevSession.end, k)

-----------------------------------------------------------------------------
(* The event bus on its own: a client subscribes, unsubscribes, clears and  *)
(* publishes; the manager is not constructed.                              *)

BusChannels == {"settings:changed", "*"}

OnInputs ==
  ({"settings:changed"} \X {"logger", "faulty", "remover", "republish"})
    \cup {<<"*", "logger">>}

OnceInputs == {"settings:changed"} \X {"logger", "republish", "rearm"}

OffInputs == BusChannels \X {"logger"}

ClearInputs == {"", "settings:changed"}

InitBus ==
  /\ settings = EmptyObj
  /\ profiles = EmptyObj
  /\ localStorage = [k \in StorageKeys |-> NullText]
  /\ isAvailable = TRUE
  /\ autoSave = TRUE
  /\ subscriptions = <<>>
  /\ listeners = NewBus.listeners
  /\ sets = NewBus.sets
  /\ unsubs = EmptyObj
  /\ applied = EmptyObj
  /\ loaded = FALSE
  /\ lastOp = Op("new EventBus()", "", "", "", EmptyObj, Start)
  /\ fresh = FALSE
  /\ snap = NoSnap
  /\ initialProfile = "default"
  /\ prevSession = NoSession
  /\ other = NoOther
  /\ writer = NoWriter
  /\ storeEnv = "ok"
  /\ nops = 0

BusOn ==
  /\ nops < MaxOps
  /\ Cardinality(DOMAIN unsubs) < Len(TokenIds)
  /\ \E in \in OnInputs :
       \E m \in {busOn(Start, in[1], in[2], "")} :
          /\ Commit(m)
          /\ lastOp' = Op("on", in[1], in[2], NextToken(Start), EmptyObj, m)
          /\ UNCHANGED <<loaded, fresh, snap>>

BusOnce ==
  /\ nops < MaxOps
  /\ Cardinality(DOMAIN unsubs) < Len(TokenIds)
  /\ \E in \in OnceInputs :
       \E m \in {busOnce(Start, in[1], in[2])} :
          /\ Commit(m)
          /\ lastOp' = Op("once", in[1], in[2], NextToken(Start), EmptyObj, m)
          /\ UNCHANGED <<loaded, fresh, snap>>

BusOff ==
  /\ nops < MaxOps
  /\ \E in \in OffInputs :
       \E m \in {off(Start, in[1], in[2])} :
          /\ Commit(m)
          /\ lastOp' = Op("off", in[1], in[2], "", EmptyObj, m)
          /\ UNCHANGED <<loaded, fresh, snap>>

\* a call of a function that on() or once() returned
BusUnsubscribe ==
  /\ nops < MaxOps
  /\ \E u \in DOMAIN unsubs :
       \E m \in {runUnsub(Start, u)} :
          /\ Commit(m)
          /\ lastOp' = Op("unsubscribe", unsubs[u].event, unsubs[u].cb, u, EmptyObj, m)
          /\ UNCHANGED <<loaded, fresh, snap>>

BusClear ==
  /\ nops < MaxOps
  /\ \E event \in ClearInputs :
       \E m \in {clear(Start, event)} :
          /\ Commit(m)
          /\ lastOp' = Op("clear", event, "", "", EmptyObj, m)
          /\ UNCHANGED <<loaded, fresh, snap>>

BusEmit ==
  /\ nops < MaxOps
  /\ \E event \in BusChannels :
       \E m \in {emit(Start, event, NoArgs)} :
          /\ Commit(m)
          /\ lastOp' = Op("emit", event, "", "", EmptyObj, m)
          /\ UNCHANGED <<loaded, fresh, snap>>

NextBus ==
  \/ BusOn
  \/ BusOnce
  \/ BusOff
  \/ BusUnsubscribe
  \/ BusClear
  \/ BusEmit

SpecBus == InitBus /\ [][NextBus]_vars

\* the calls a log records for publish id of handler h registered on ch
CallsIn(log, id, ch, h) ==
  {i \in DOMAIN log :
     log[i].t = "call" /\ log[i].id = id /\ log[i].ch = ch /\ log[i].h = h}

\* the position of a registration in its channel
Position(ch, h) == CHOOSE i \in DOMAIN sets[listeners[ch]] : sets[listeners[ch]][i] = h

\* C15: a publish on c invokes every handler subscribed to c at that time
\* exactly once, in registration order, then every handler subscribed to the
\* wildcard channel exactly once; no handler is invoked more than once per
\* publish.
C15_PublishInvokesEachOnce ==
  [][(lastOp'.op = "emit" /\ nops' = nops + 1) =>
       LET c == lastOp'.name
           log == lastOp'.log
       IN /\ \A h \in SubscribersOf(c) : Cardinality(CallsIn(log, 1, c, h)) = 1
          /\ \A h \in SubscribersOf("*") : Cardinality(CallsIn(log, 1, "*", h)) = 1
          /\ \A g, h \in SubscribersOf(c) :
               Position(c, g) < Position(c, h) =>
                 \A i \in CallsIn(log, 1, c, g), j \in CallsIn(log, 1, c, h) : i < j
          /\ \A g \in SubscribersOf(c), h \in SubscribersOf("*") :
               c # "*" =>
                 \A i \in CallsIn(log, 1, c, g), j \in CallsIn(log, 1, "*", h) : i < j
          /\ \A e \in DOMAIN log, ch \in BusChannels :
               \A h \in SubscribersOf(ch) :
                 log[e].t = "emit" => Cardinality(CallsIn(log, log[e].id, ch, h)) <= 1
    ]_vars

\* C16: a call of the function returned by on(event, callback) removes no
\* registration but that of callback on event, whenever and however often it
\* is called; listenerCount decreases by at most one, and only on event.
C16_UnsubscribeExact ==
  [][(lastOp'.op = "unsubscribe" /\ nops' = nops + 1) =>
       /\ \A ch \in BusChannels :
            \A h \in SubscribersOf(ch) :
              (ch # lastOp'.name \/ h # lastOp'.key) => h \in SubscribersOf(ch)'
       /\ \A ch \in BusChannels :
            LET before == listenerCount([listeners |-> listeners, sets |-> sets], ch)
                after == listenerCount([listeners |-> listeners', sets |-> sets'], ch)
            IN /\ after >= before - 1
               /\ ch # lastOp'.name => after >= before
    ]_vars

OnceTokens == {u \in DOMAIN unsubs : unsubs[u].once # ""}

\* C17: a handler registered with once() is invoked at most once, nested
\* publishes included, and after its invocation it is registered nowhere.
C17_OnceAtMostOnce ==
  \A u \in OnceTokens :
    /\ unsubs[u].fired <= 1
    /\ unsubs[u].fired = 1 =>
         /\ \A sid \in DOMAIN sets : ~SetHas(sets[sid], u)
         /\ u \notin SubscribersOf(unsubs[u].event)

\* a once() handler has run in a publish that another handler republished
C17_Witness ==
  /\ lastOp.op = "emit"
  /\ Cardinality(Emitted(lastOp.name)) >= 2
  /\ \E u \in OnceTokens :
       /\ unsubs[u].fired = 1
       /\ unsubs[u].event = lastOp.name
       /\ \E i \in DOMAIN lastOp.log : lastOp.log[i].t = "call" /\ lastOp.log[i].h = u
  /\ listenerCount([listeners |-> listeners, sets |-> sets], lastOp.name) >= 1

-----------------------------------------------------------------------------
(* The manager again (Spec) *)

\* what C21 promises of an updateSettings(updates) step
UpdateSettingsPost(before, after, op) ==
  /\ ~op.threw
  /\ \A k \in DOMAIN op.updates : getSetting(after, k) = op.updates[k]
  /\ DOMAIN after = DOMAIN before \cup DOMAIN op.updates
  /\ \A k \in DOMAIN before \ DOMAIN op.updates : after[k] = before[k]
  /\ Cardinality({i \in DOMAIN op.log :
                    op.log[i].t \in {"setItem:true", "setItem:false"}}) = 1
  /\ Cardinality({i \in DOMAIN op.log :
                    op.log[i].t = "emit" /\ op.log[i].ch = "settings:changed"}) = 1
  /\ \A i \in DOMAIN op.log :
       (op.log[i].t = "emit" /\ op.log[i].ch = "settings:changed") =>
         op.log[i].args.detail = [updates |-> op.updates]
  /\ op.updates = EmptyObj => after = before

-----------------------------------------------------------------------------
(* A caller that writes to what getAll() and getProfiles() returned.  The   *)
(* values of a settings mapping are primitives; the values of the profile   *)
(* mapping are objects, and { ...this.profiles } copies the references to   *)
(* them: an entry of the returned mapping is the manager's profile object.  *)

EntryWrites == {<<"highContrast", "fontSize", "150">>, <<"default", "contrast", "true">>}

\* const s = settings.getAll(); s[key] = value
CallerWritesAll ==
  /\ nops < MaxOps
  /\ \E kv \in UpdateInputs :
       /\ Commit(Start)
       /\ lastOp' = Op("getAll()[key] = value", "", kv[1], kv[2],
                       PropSet(getAll(settings), kv[1], kv[2]), Start)
       /\ UNCHANGED <<loaded, fresh, snap>>

\* const p = settings.getProfiles(); p[name] = {}
CallerWritesProfiles ==
  /\ nops < MaxOps
  /\ \E n \in SaveNames :
       /\ Commit(Start)
       /\ lastOp' = Op("getProfiles()[name] = {}", n, "", "",
                       PropSet(getProfiles(profiles), n, EmptyObj), Start)
       /\ UNCHANGED <<loaded, fresh, snap>>

\* const p = settings.getProfiles(); p[name][key] = value
CallerWritesProfileEntry ==
  /\ nops < MaxOps
  /\ \E w \in EntryWrites :
       /\ w[1] \in DOMAIN getProfiles(profiles)
       /\ Commit([Start EXCEPT !.profiles[w[1]] = PropSet(@, w[2], w[3])])
       /\ lastOp' = Op("getProfiles()[name][key] = value", w[1], w[2], w[3], EmptyObj, Start)
       /\ UNCHANGED <<loaded, fresh, snap>>

NextCaller ==
  \/ Load
  \/ UpdateSetting
  \/ LoadProfile
  \/ SaveProfile
  \/ CallerWritesAll
  \/ CallerWritesProfiles
  \/ CallerWritesProfileEntry

SpecCaller == Init /\ [][NextCaller]_vars

CallerWrites ==
  {"getAll()[key] = value", "getProfiles()[name] = {}", "getProfiles()[name][key] = value"}

\* C22: nothing a caller writes to the mapping getAll() or getProfiles()
\* returned, or to a profile entry of the latter, changes the settings or
\* the profiles the manager holds (what getSetting, getAll, getProfiles and
\* loadProfile observe later).
C22_DefensiveCopies ==
  [][(nops' = nops + 1 /\ lastOp'.op \in CallerWrites) =>
       /\ getAll(settings') = getAll(settings)
       /\ getProfiles(profiles') = getProfiles(profiles)]_vars

-----------------------------------------------------------------------------
(* The storage wrapper with a browser store that can fail: a page           *)
(* constructs Storage objects, calls their methods directly and through     *)
(* the manager, while the browser's store fills up, is denied or recovers.  *)

MaxStoreOps == 3

testKey == prefix \o "test"

\* a key of the page that the widget does not own
foreignKey == "theme"

ForeignText == [kind |-> "json", val |-> [theme |-> "dark"]]

StoreKeys == StorageKeys \cup {testKey, foreignKey}

StoreEnvs == {"ok", "quota", "denied"}

SetInputs ==
  {<<"spicySettings", JSONstringify([fontSize |-> "150"])>>,
   <<"test", JSONstringify(EmptyObj)>>}

GetInputs == {"spicySettings", "test"}

\* Storage.checkAvailability
checkAvailability(m) ==
  IF writeThrows THEN [Log(m, "warn", "", 0, "", NoArgs) EXCEPT !.ret = "false"]
  ELSE [m EXCEPT !.ls[testKey] = NullText, !.ret = "true"]

InitStore ==
  /\ settings = EmptyObj
  /\ profiles = EmptyObj
  /\ \E saved \in {NullText, JSONstringify([fontSize |-> "150"])} :
       localStorage = [k \in StoreKeys |->
                         IF k = foreignKey THEN ForeignText
                         ELSE IF k = prefix \o "spicySettings" THEN saved
                         ELSE NullText]
  /\ storeEnv \in StoreEnvs
  /\ isAvailable = ~writeThrows
  /\ autoSave \in BOOLEAN
  /\ subscriptions = SubsFaulty
  /\ listeners = SubscribeAll(NewBus, subscriptions).listeners
  /\ sets = SubscribeAll(NewBus, subscriptions).sets
  /\ unsubs = EmptyObj
  /\ applied = EmptyObj
  /\ loaded = FALSE
  /\ lastOp = Op("new Storage()", "", "", "", EmptyObj, Start)
  /\ fresh = FALSE
  /\ snap = NoSnap
  /\ initialProfile = "default"
  /\ prevSession = NoSession
  /\ other = NoOther
  /\ writer = NoWriter
  /\ nops = 0

\* what an operation of the storage wrapper leaves to the state
CommitStore(m) ==
  /\ localStorage' = m.ls
  /\ nops' = nops + 1
  /\ UNCHANGED <<settings, profiles, listeners, sets, unsubs, applied, loaded, fresh,
                 snap, subscriptions, initialProfile, prevSession, other, writer>>

\* new Storage(autoSave)
StoreConstruct ==
  /\ nops < MaxStoreOps
  /\ \E a \in BOOLEAN :
       LET m == checkAvailability(Start)
       IN /\ CommitStore(m)
          /\ autoSave' = a
          /\ isAvailable' = (m.ret = "true")
          /\ lastOp' = Op("new Storage()", "", "", "", EmptyObj, m)
          /\ UNCHANGED storeEnv

\* the browser's store fills up, is denied, or works again
StoreEnvChanges ==
  /\ nops < MaxStoreOps
  /\ \E e \in StoreEnvs \ {storeEnv} :
       /\ storeEnv' = e
       /\ CommitStore(Start)
       /\ lastOp' = Op("(browser)", e, "", "", EmptyObj, Start)
       /\ UNCHANGED <<isAvailable, autoSave>>

StoreGetItem ==
  /\ nops < MaxStoreOps
  /\ \E key \in GetInputs :
       LET m == [Start EXCEPT !.ret = getItem(Start, key).kind]
       IN /\ CommitStore(m)
          /\ lastOp' = Op("getItem", "", key, "", EmptyObj, m)
          /\ UNCHANGED <<isAvailable, autoSave, storeEnv>>

StoreSetItem ==
  /\ nops < MaxStoreOps
  /\ \E in \in SetInputs :
       LET m1 == setItem(Start, in[1], in[2])
           m == [m1 EXCEPT !.ret = IF m1.log[Len(m1.log)].t = "setItem:true"
                                     THEN "true" ELSE "false"]
       IN /\ CommitStore(m)
          /\ lastOp' = Op("setItem", "", in[1], "", in[2].val, m)
          /\ UNCHANGED <<isAvailable, autoSave, storeEnv>>

StoreRemoveItem ==
  /\ nops < MaxStoreOps
  /\ \E key \in GetInputs :
       LET m == removeItem(Start, key)
       IN /\ CommitStore(m)
          /\ lastOp' = Op("removeItem", "", key, "", EmptyObj, m)
          /\ UNCHANGED <<isAvailable, autoSave, storeEnv>>

StoreClear ==
  /\ nops < MaxStoreOps
  /\ LET m == clearStorage(Start)
     IN /\ CommitStore(m)
        /\ lastOp' = Op("clear", "", "", "", EmptyObj, m)
        /\ UNCHANGED <<isAvailable, autoSave, storeEnv>>

NextStore ==
  \/ StoreConstruct
  \/ StoreEnvChanges
  \/ StoreGetItem
  \/ StoreSetItem
  \/ StoreRemoveItem
  \/ StoreClear
  \/ nops < MaxStoreOps /\ Load
  \/ nops < MaxStoreOps /\ UpdateSetting
  \/ nops < MaxStoreOps /\ SaveProfile
  \/ nops < MaxStoreOps /\ DeleteProfile

SpecStore == InitStore /\ [][NextStore]_vars

ManagerOps ==
  {"load", "updateSetting", "updateSettings", "resetAll", "loadProfile", "saveProfile",
   "deleteProfile"}

\* C23: setItem(key, value) returns false, throws nothing and leaves the
\* browser's store unchanged when the store is unavailable, autoSave is off,
\* or the write fails; otherwise it writes prefix+key and returns true.  With
\* autoSave off no operation of the manager changes the browser's store.
C23_SetItem ==
  [][/\ (nops' = nops + 1 /\ lastOp'.op = "setItem") =>
          /\ ~lastOp'.threw
          /\ IF ~isAvailable \/ ~autoSave \/ storeEnv # "ok"
               THEN lastOp'.ret = "false" /\ localStorage' = localStorage
               ELSE /\ lastOp'.ret = "true"
                    /\ localStorage' =
                         [localStorage EXCEPT ![prefix \o lastOp'.key] =
                            [kind |-> "json", val |-> lastOp'.updates]]
     /\ (nops' = nops + 1 /\ lastOp'.op \in ManagerOps /\ ~autoSave) =>
          localStorage' = localStorage]_vars

\* setItem has written, has been refused with autoSave off and has failed on
\* a full store; the manager has run with autoSave off
C23_Witness ==
  /\ lastOp.op = "updateSetting"
  /\ ~autoSave
  /\ isAvailable
  /\ storeEnv = "ok"
  /\ localStorage[prefix \o "spicySettings"] = JSONstringify([fontSize |-> "150"])
  /\ settings # [fontSize |-> "150"]

StoreOps == {"getItem", "setItem", "removeItem", "clear"}

\* the browser's store fails the call that the operation makes
StoreCallFails(op) == IF op = "setItem" THEN writeThrows ELSE accessThrows

\* the failure value of an operation of the wrapper
Failure(op) == IF op = "getItem" THEN "null" ELSE "false"

\* C24: availability is decided once, by the probe at construction.  After a
\* failed probe getItem returns null, setItem, removeItem and clear return
\* false and none of them touches the browser's store, whatever the browser
\* does later; after a successful probe a failing call of the browser's
\* store is caught and reported as null or false.  Nothing throws.
C24_AvailabilityOnce ==
  [][nops' = nops + 1 =>
       /\ lastOp'.op = "new Storage()" =>
            (~lastOp'.threw /\ isAvailable' = (storeEnv = "ok"))
       /\ lastOp'.op # "new Storage()" => isAvailable' = isAvailable
       /\ lastOp'.op \in StoreOps =>
            /\ ~lastOp'.threw
            /\ ~isAvailable =>
                 (lastOp'.ret = Failure(lastOp'.op) /\ localStorage' = localStorage)
            /\ (isAvailable /\ StoreCallFails(lastOp'.op)) =>
                 lastOp'.ret = Failure(lastOp'.op)]_vars

\* the probe failed, the browser's store works again and holds an entry of
\* an earlier visit; removeItem has returned false and left it there
C24_Witness ==
  /\ lastOp.op = "removeItem"
  /\ lastOp.key = "spicySettings"
  /\ lastOp.ret = "false"
  /\ ~isAvailable
  /\ storeEnv = "ok"
  /\ localStorage[prefix \o "spicySettings"] # NullText

-----------------------------------------------------------------------------
(* The manager again (Spec) *)

-----------------------------------------------------------------------------
(* Two tabs of one page: two managers on one store.  Each operation runs to *)
(* completion in its tab; between operations the other tab can run.        *)

MaxTabOps == 3

\* the other tab runs next: its manager is now the one the operations act on
SwitchTab ==
  /\ lastOp.op # "(other tab)"
  /\ settings' = other.settings
  /\ profiles' = other.profiles
  /\ applied' = other.applied
  /\ loaded' = other.loaded
  /\ other' = [current |-> 3 - other.current, settings |-> settings, profiles |-> profiles,
               applied |-> applied, loaded |-> loaded]
  /\ lastOp' = Op("(other tab)", "", "", "", EmptyObj, Start)
  /\ fresh' = FALSE
  /\ snap' = NoSnap
  /\ UNCHANGED <<localStorage, isAvailable, autoSave, storeEnv, listeners, sets, unsubs,
                 subscriptions, initialProfile, prevSession, writer, nops>>

\* both tabs have been opened on an empty store and their managers have
\* run load()
InitTabs ==
  /\ settings = Spread(defaultSettings)
  /\ profiles = getDefaultProfiles
  /\ localStorage = [k \in StorageKeys |-> NullText]
  /\ isAvailable = TRUE
  /\ autoSave = TRUE
  /\ storeEnv = "ok"
  /\ subscriptions \in Subscriptions
  /\ listeners = SubscribeAll(NewBus, subscriptions).listeners
  /\ sets = SubscribeAll(NewBus, subscriptions).sets
  /\ unsubs = EmptyObj
  /\ applied = EmptyObj
  /\ loaded = TRUE
  /\ lastOp = Op("load", "", "", "", EmptyObj, Start)
  /\ fresh = FALSE
  /\ snap = NoSnap
  /\ initialProfile = "default"
  /\ prevSession = NoSession
  /\ other = [NoOther EXCEPT !.settings = Spread(defaultSettings),
                             !.profiles = getDefaultProfiles, !.loaded = TRUE]
  /\ writer = NoWriter
  /\ nops = 0

NextTabs ==
  \/ SwitchTab
  \/ nops < MaxTabOps /\ Load
  \/ nops < MaxTabOps /\ UpdateSetting
  \/ nops < MaxTabOps /\ ResetAll
  \/ nops < MaxTabOps /\ LoadProfile
  \/ nops < MaxTabOps /\ SaveProfile
  \/ nops < MaxTabOps /\ DeleteProfile

SpecTabs == InitTabs /\ [][NextTabs]_vars

\* the mapping that the manager of tab t holds for a persisted entry
MappingOf(t, key) ==
  IF key = "spicySettings"
    THEN JSONstringify(IF t = other.current THEN settings ELSE other.settings)
    ELSE JSONstringifyNested(IF t = other.current THEN profiles ELSE other.profiles)

EntriesOfLastWriter ==
  \A key \in DOMAIN writer :
    writer[key] # 0 => localStorage[prefix \o key] = MappingOf(writer[key], key)

\* C26: each persisted entry is the serialization of the mapping held by the
\* manager that wrote the entry last, and no operation of one manager changes
\* the mappings of the other.
C26_LastWriteWins ==
  [][/\ EntriesOfLastWriter'
     /\ lastOp'.op # "(other tab)" =>
          (other'.settings = other.settings /\ other'.profiles = other.profiles)]_vars

\* both tabs have written spicySettings; the entry is the second writer's
\* mapping and differs from the first writer's
C26_Witness ==
  /\ lastOp.op = "updateSetting"
  /\ writer["spicySettings"] = other.current
  /\ other.loaded
  /\ loaded
  /\ other.settings["fontSize"] = "150"
  /\ settings["fontSize"] = "100"
  /\ localStorage[prefix \o "spicySettings"] = JSONstringify(settings)
  /\ localStorage[prefix \o "spicySettings"] # JSONstringify(other.settings)

-----------------------------------------------------------------------------
(* The manager again (Spec) *)

\* the invocations of handler h on a channel that the last operation logged
CallsOn(ch, h) ==
  {i \in DOMAIN lastOp.log :
     lastOp.log[i].t = "call" /\ lastOp.log[i].ch = ch /\ lastOp.log[i].h = h}

\* C27: after an operation during which a handler called back into the
\* manager, every subscriber of settings:changed has received the change
\* notifications in the order of the mutations (publishes are numbered in
\* that order), and the mapping it received last is the manager's mapping.
C27_ReentrantOrder ==
  Reentered =>
    \A h \in SubscribersOf("settings:changed") :
      /\ \A i, j \in CallsOn("settings:changed", h) :
           i < j => lastOp.log[i].id < lastOp.log[j].id
      /\ \A i \in CallsOn("settings:changed", h) :
           (\A j \in CallsOn("settings:changed", h) : j <= i) =>
             lastOp.log[i].args.settings = settings

SettingsOps == {"updateSetting", "updateSettings", "resetAll", "loadProfile"}

ClosingEvents == {"settings:changed", "settings:reset", "settings:profile:loaded"}

\* the publishes of the last operation on a set of channels
EmittedIn(chs) ==
  {i \in DOMAIN lastOp.log : lastOp.log[i].t = "emit" /\ lastOp.log[i].ch \in chs}

\* the event that the handler invocation logged at i was made for
EventOf(i) ==
  lastOp.log[CHOOSE e \in AnyEmitted : lastOp.log[e].id = lastOp.log[i].id].ch

\* the mapping holds what the last operation was called to put there
HoldsNewValue(s) ==
  CASE lastOp.op = "updateSetting" -> getSetting(s, lastOp.key) = lastOp.value
    [] lastOp.op = "updateSettings" ->
         \A k \in DOMAIN lastOp.updates : getSetting(s, k) = lastOp.updates[k]
    [] lastOp.op = "resetAll" -> s = defaultSettings
    [] lastOp.op = "loadProfile" ->
         s = IF lastOp.name \in DOMAIN profiles THEN profiles[lastOp.name] ELSE EmptyObj
    [] OTHER -> TRUE

\* mutate, then persist, then notify
MutatePersistNotify ==
  /\ \A i \in DOMAIN lastOp.log :
       (lastOp.log[i].t = "call"
          /\ EventOf(i) \in ClosingEvents \cup {"settings:saved"}) =>
         /\ HoldsNewValue(lastOp.log[i].args.settings)
         /\ (isAvailable /\ autoSave) => lastOp.log[i].args.synced
  /\ Cardinality(EmittedIn({"settings:saved"})) = 1
  /\ Cardinality(EmittedIn(ClosingEvents)) = 1
  /\ \A i \in EmittedIn({"settings:saved"}), j \in EmittedIn(ClosingEvents) : i < j

\* C28 (as stated): in every mutating operation, whenever a handler of
\* settings:saved, settings:changed, settings:reset or
\* settings:profile:loaded runs, the mapping holds the new value and, with a
\* usable store and autoSave on, the persisted settings equal it;
\* settings:saved is published exactly once, before the operation's
\* settings:changed, settings:reset or settings:profile:loaded.
C28_MutatePersistNotifyAlways ==
  (lastOp.op \in SettingsOps /\ AnyEmitted # {}) => MutatePersistNotify

\* C28 (amended): the same for keys other than "__proto__", provided no
\* handler invoked during the operation calls back into the manager.
C28_MutatePersistNotify ==
  (lastOp.op \in SettingsOps /\ AnyEmitted # {} /\ lastOp.key # "__proto__"
     /\ ~Reentered) => MutatePersistNotify

C28_Witness ==
  /\ lastOp.op = "loadProfile"
  /\ lastOp.name = "highContrast"
  /\ loaded
  /\ isAvailable
  /\ autoSave
  /\ settings["contrast"] = "true"
  /\ \E i \in DOMAIN lastOp.log :
       /\ lastOp.log[i].t = "call"
       /\ EventOf(i) = "settings:profile:loaded"
       /\ lastOp.log[i].args.synced
       /\ lastOp.log[i].args.settings = settings

-----------------------------------------------------------------------------
\* C29: a publish returns after finitely many handler invocations, also when
\* handlers subscribe or unsubscribe on the channel being published: no
\* publish is still invoking handlers when the model stops following it.
C29_PublishReturns ==
  lastOp.op = "emit" => \A i \in DOMAIN lastOp.log : lastOp.log[i].t # "cut"

-----------------------------------------------------------------------------
\* the store's set calls of the last operation on an entry
SetItemOn(key) ==
  {i \in DOMAIN lastOp.log :
     lastOp.log[i].t \in {"setItem:true", "setItem:false"} /\ lastOp.log[i].ch = key}

ProfileOps == {"saveProfile", "deleteProfile"}

\* an entry is absent or decodes to the mapping; load() changes nothing;
\* each operation writes its own entry only
PersistenceMirrorsMemory ==
  /\ LET savedSettings == localStorage[prefix \o "spicySettings"]
     IN Truthy(savedSettings) =>
          ~JSONparseThrows(savedSettings) /\ JSONparse(savedSettings) = settings
  /\ LET savedProfiles == localStorage[prefix \o "spicyProfiles"]
     IN Truthy(savedProfiles) =>
          ~JSONparseThrows(savedProfiles) /\ JSONparse(savedProfiles) = profiles
  /\ \E r \in {load(Start)} :
       /\ ~r.exc
       /\ getAll(r.settings) = getAll(settings)
       /\ getProfiles(r.profiles) = getProfiles(profiles)
  /\ lastOp.op \in SettingsOps => SetItemOn("spicyProfiles") = {}
  /\ lastOp.op \in ProfileOps => SetItemOn("spicySettings") = {}

\* no key of the settings or of a profile has the value undefined
NoUndefined ==
  /\ \A k \in DOMAIN settings : settings[k] # Undefined
  /\ \A n \in DOMAIN profiles : \A k \in DOMAIN profiles[n] : profiles[n][k] # Undefined

====
